---------------------------- MODULE Spec2Model ----------------------------
(***************************************************************************)
(* Queens Park Station departure backend (src/backend.py).                 *)
(*                                                                         *)
(* A GET /api/departures request runs get_departures, which calls          *)
(* scrape_transperth (a retry loop of at most max_retries fetch attempts,  *)
(* then the parsing of the rows of table tblStationStatus, each time cell  *)
(* normalised by parse_departure_time), splits the records by direction,   *)
(* sorts them by minutes and answers with the first ten of each.           *)
(*                                                                         *)
(* Text is a sequence of one-character strings, so that strip(), lower(),  *)
(* the substring test and the regular expressions are computed.            *)
(***************************************************************************)
EXTENDS Integers, Sequences, FiniteSets

VARIABLES
    pc,                \* position of the request handler
    attempt,           \* loop variable of the retry loop
    outcomes,          \* how each fetch attempt made so far ended
    response,          \* local `response` of scrape_transperth
    now,               \* the wall clock read by datetime.now()
    minutes,           \* local `minutes` of the row loop when the loop ends
    all_departures,    \* the list scrape_transperth returns
    perth_departures,  \* sorted, before truncation
    south_departures,  \* sorted, before truncation
    reply              \* the JSON body and HTTP status sent

vars == << pc, attempt, outcomes, response, now, minutes, all_departures,
           perth_departures, south_departures, reply >>

---------------------------------------------------------------------------
(* Bounds of the inputs.                                                   *)

\* longest row list of a served page
MaxRows == 15

\* most tokens concatenated into the time text of a one-row page
MaxTokens == 2

---------------------------------------------------------------------------
(* Text helpers.                                                           *)

UpperChars == << "A","B","C","D","E","F","G","H","I","J","K","L","M",
                 "N","O","P","Q","R","S","T","U","V","W","X","Y","Z" >>

LowerChars == << "a","b","c","d","e","f","g","h","i","j","k","l","m",
                 "n","o","p","q","r","s","t","u","v","w","x","y","z" >>

Digits == << "0","1","2","3","4","5","6","7","8","9" >>

Whitespace == { " ", "\t", "\n" }

IsDigit(c) == \E i \in 1..Len(Digits) : Digits[i] = c

DigitValue(c) == (CHOOSE i \in 1..Len(Digits) : Digits[i] = c) - 1

LowerChar(c) ==
    IF \E i \in 1..Len(UpperChars) : UpperChars[i] = c
    THEN LowerChars[CHOOSE i \in 1..Len(UpperChars) : UpperChars[i] = c]
    ELSE c

\* str.lower()
Lower(s) == [i \in 1..Len(s) |-> LowerChar(s[i])]

\* str.strip()
Strip(s) ==
    LET keep == { i \in 1..Len(s) : s[i] \notin Whitespace }
    IN  IF keep = {} THEN << >>
        ELSE LET lo == CHOOSE i \in keep : \A j \in keep : i <= j
                 hi == CHOOSE i \in keep : \A j \in keep : j <= i
             IN  SubSeq(s, lo, hi)

\* the `in` operator on strings
Contains(sub, s) ==
    \E i \in 1..(Len(s) - Len(sub) + 1) : SubSeq(s, i, i + Len(sub) - 1) = sub

\* int() of a run of decimal digits
RECURSIVE IntOf(_)
IntOf(ds) ==
    IF ds = << >> THEN 0
    ELSE 10 * IntOf(SubSeq(ds, 1, Len(ds) - 1)) + DigitValue(ds[Len(ds)])

HasDigit(s) == \E i \in 1..Len(s) : IsDigit(s[i])

\* group(1) of re.search(r'(\d+)', s): the leftmost, longest run of digits
FirstDigitRun(s) ==
    LET lo == CHOOSE i \in 1..Len(s) :
                  IsDigit(s[i]) /\ \A j \in 1..(i - 1) : ~IsDigit(s[j])
        hi == CHOOSE k \in lo..Len(s) :
                  /\ \A j \in lo..k : IsDigit(s[j])
                  /\ (k = Len(s) \/ ~IsDigit(s[k + 1]))
    IN  SubSeq(s, lo, hi)

\* r'(\d{1,2}):(\d{2})' matched at position i with an hour of w digits
ClockAt(s, i, w) ==
    /\ i + w + 2 <= Len(s)
    /\ \A j \in i..(i + w - 1) : IsDigit(s[j])
    /\ s[i + w] = ":"
    /\ IsDigit(s[i + w + 1])
    /\ IsDigit(s[i + w + 2])

HasClock(s) == \E i \in 1..Len(s) : ClockAt(s, i, 2) \/ ClockAt(s, i, 1)

\* the groups of re.search(r'(\d{1,2}):(\d{2})', s): leftmost match, the
\* greedy two-digit hour tried first
ClockMatch(s) ==
    LET i == CHOOSE p \in 1..Len(s) :
                 /\ ClockAt(s, p, 2) \/ ClockAt(s, p, 1)
                 /\ \A q \in 1..(p - 1) : ~(ClockAt(s, q, 2) \/ ClockAt(s, q, 1))
        w == IF ClockAt(s, i, 2) THEN 2 ELSE 1
    IN  [ hour   |-> IntOf(SubSeq(s, i, i + w - 1)),
          minute |-> IntOf(SubSeq(s, i + w + 1, i + w + 2)) ]

---------------------------------------------------------------------------
(* parse_departure_time.                                                   *)

\* what a call yields: an int, None, or a raised ValueError
IntResult(n) == [ kind |-> "int", val |-> n ]

NoneResult == [ kind |-> "None", val |-> 0 ]

RaisedValueError == [ kind |-> "ValueError", val |-> 0 ]

Unbound == [ kind |-> "unbound", val |-> 0 ]

SecondsPerDay == 86400

\* seconds since midnight of a clock reading
SecondsOf(t) == 3600 * t.hour + 60 * t.minute + t.second

\* lines 42-52: the clock-time branch
ClockBranch(m, t) ==
    IF m.hour > 23 \/ m.minute > 59
    THEN RaisedValueError                     \* now.replace() rejects it
    ELSE LET dep   == 3600 * m.hour + 60 * m.minute
             depar == IF dep < SecondsOf(t) THEN dep + SecondsPerDay ELSE dep
         IN  IntResult((depar - SecondsOf(t)) \div 60)

\* the clock pattern tried before the digits and without the day rollover
parse_departure_time_no_rollover(time_str, t) ==
    LET s == Lower(Strip(time_str))
    IN  IF Contains(<<"n","o","w">>, s) \/ Contains(<<"d","u","e">>, s)
        THEN IntResult(0)
        ELSE IF HasClock(s)
        THEN LET m == ClockMatch(s)
             IN  IntResult((3600 * m.hour + 60 * m.minute - SecondsOf(t)) \div 60)
        ELSE IF HasDigit(s)
        THEN IntResult(IntOf(FirstDigitRun(s)))
        ELSE NoneResult

\* the digits tried before 'now' and 'due'
parse_departure_time_digits_first(time_str, t) ==
    LET s == Lower(Strip(time_str))
    IN  IF HasDigit(s)
        THEN IntResult(IntOf(FirstDigitRun(s)))
        ELSE IF Contains(<<"n","o","w">>, s) \/ Contains(<<"d","u","e">>, s)
        THEN IntResult(0)
        ELSE NoneResult

\* r'(\d)' for r'(\d+)': the first digit alone
parse_departure_time_one_digit(time_str, t) ==
    LET s == Lower(Strip(time_str))
    IN  IF Contains(<<"n","o","w">>, s) \/ Contains(<<"d","u","e">>, s)
        THEN IntResult(0)
        ELSE IF HasDigit(s)
        THEN IntResult(IntOf(SubSeq(FirstDigitRun(s), 1, 1)))
        ELSE NoneResult

\* lines 29-54
parse_departure_time(time_str, t) ==
    LET s == Lower(Strip(time_str))
    IN  IF Contains(<<"n","o","w">>, s) \/ Contains(<<"d","u","e">>, s)
        THEN IntResult(0)
        ELSE IF HasDigit(s)
        THEN IntResult(IntOf(FirstDigitRun(s)))
        ELSE IF HasClock(s)
        THEN ClockBranch(ClockMatch(s), t)
        ELSE NoneResult

---------------------------------------------------------------------------
(* scrape_transperth: the rows of the page and the row loop.               *)

max_retries == 2

\* a <tr> as the row loop reads it: the number of its <td> cells and the
\* texts lines 144-171 take out of them
Row(time_text, destination_text, platform_text, stops_text, ntds) ==
    [ ntds             |-> ntds,
      time_text        |-> time_text,
      destination_text |-> destination_text,
      platform_text    |-> platform_text,
      stops_text       |-> stops_text ]

\* lines 177-185: the record appended for a kept row
Departure(row, n) ==
    [ platform     |-> row.platform_text,
      destination  |-> row.destination_text,
      time_display |-> row.time_text,
      minutes      |-> n,
      pattern      |-> "W",
      stops        |-> row.stops_text,
      line         |-> "Queens Park" ]

\* the destination not looked at
Kept_any_destination(m, destination_text) == m.kind = "int"

\* line 176: `minutes is not None and destination_text`
Kept(m, destination_text) == m.kind = "int" /\ destination_text # << >>

\* lines 135-190: the row loop from row i on; st holds the locals
\* `departures` and `minutes`.  A row of fewer than three cells is skipped
\* by `continue`, a row whose time raises is skipped by the except clause.
RECURSIVE RowLoop(_, _, _, _)
RowLoop(rows, i, t, st) ==
    IF i > Len(rows) THEN st
    ELSE LET row == rows[i]
             m   == parse_departure_time(row.time_text, t)
         IN  IF row.ntds < 3 \/ m.kind = "ValueError"
             THEN RowLoop(rows, i + 1, t, st)
             ELSE RowLoop(rows, i + 1, t,
                    [ departures |-> IF Kept(m, row.destination_text)
                                     THEN Append(st.departures, Departure(row, m.val))
                                     ELSE st.departures,
                      minutes    |-> m ])

\* lines 113-199: the parsing stage of scrape_transperth on a response body
ParseBody(content, t) ==
    IF ~content.table \/ ~content.tbody
    THEN [ departures |-> << >>, minutes |-> Unbound ]
    ELSE RowLoop(content.rows, 1, t, [ departures |-> << >>, minutes |-> Unbound ])

---------------------------------------------------------------------------
(* get_departures: classification, sort, truncation, reply.                *)

Limit == 10

hub_token == << "p","e","r","t","h" >>

\* line 215: 'perth' in d['destination'].lower()
TowardPerth(d) == Contains(hub_token, Lower(d.destination))

\* lines 213-216 and 218-221: the list comprehensions
RECURSIVE Filter(_, _)
Filter(list, keepPerth) ==
    IF list = << >> THEN << >>
    ELSE LET rest == Filter(Tail(list), keepPerth)
         IN  IF TowardPerth(Head(list)) = keepPerth
             THEN << Head(list) >> \o rest
             ELSE rest

PerthFilter(list) == Filter(list, TRUE)

\* the second comprehension without .lower()
RECURSIVE SouthFilter_case_sensitive(_)
SouthFilter_case_sensitive(list) ==
    IF list = << >> THEN << >>
    ELSE IF ~Contains(hub_token, Head(list).destination)
         THEN << Head(list) >> \o SouthFilter_case_sensitive(Tail(list))
         ELSE SouthFilter_case_sensitive(Tail(list))

SouthFilter(list) == Filter(list, FALSE)

\* list.sort(key=lambda x: x['minutes']): a stable sort, here by insertion
\* of each element behind the elements whose key is not greater
\* an insertion in front of the elements of equal key: not stable
RECURSIVE InsertByMinutes_unstable(_, _)
InsertByMinutes_unstable(sorted, d) ==
    IF sorted = << >> THEN << d >>
    ELSE IF Head(sorted).minutes < d.minutes
         THEN << Head(sorted) >> \o InsertByMinutes_unstable(Tail(sorted), d)
         ELSE << d >> \o sorted

RECURSIVE InsertByMinutes(_, _)
InsertByMinutes(sorted, d) ==
    IF sorted = << >> THEN << d >>
    ELSE IF Head(sorted).minutes <= d.minutes
         THEN << Head(sorted) >> \o InsertByMinutes(Tail(sorted), d)
         ELSE << d >> \o sorted

RECURSIVE SortFrom(_, _, _)
SortFrom(list, i, sorted) ==
    IF i > Len(list) THEN sorted
    ELSE SortFrom(list, i + 1, InsertByMinutes(sorted, list[i]))

SortByMinutes(list) == SortFrom(list, 1, << >>)

\* the slice list[:n]
Take(list, n) == SubSeq(list, 1, IF Len(list) < n THEN Len(list) ELSE n)

NoReply == [ success |-> FALSE, status |-> 0, perth |-> << >>, south |-> << >>,
             error |-> "" ]

\* lines 226-232 ('last_updated' and 'using_proxy' carry no departure data
\* and are left out; jsonify answers 200)
SuccessReply(p, s) ==
    [ success |-> TRUE, status |-> 200, perth |-> Take(p, Limit),
      south |-> Take(s, Limit), error |-> "" ]

\* lines 234-239: the except branch of get_departures.  scrape_transperth
\* catches every exception itself and the statements of lines 210-232 do
\* not raise on a list of records, so no step sends this body.
FailureReply(e) ==
    [ success |-> FALSE, status |-> 500, perth |-> << >>, south |-> << >>,
      error |-> e ]

---------------------------------------------------------------------------
(* What the upstream can serve.                                            *)

Perth == << "P","e","r","t","h" >>

PERTH == << "P","E","R","T","H" >>

Armadale == << "A","r","m","a","d","a","l","e" >>

Thornlie == << "T","h","o","r","n","l","i","e" >>

\* the rows the longer pages are made of
RowPool ==
    << Row(<<"5"," ","m","i","n">>, Perth, "1", "All Stations", 3),
       Row(<<"5">>, PERTH, "2", "All Stations", 3),
       Row(<<"1","2","m","i","n">>, Perth, "?", "All Stations", 3),
       Row(<<"N","o","w">>, Armadale, "2", "All Stations", 3),
       Row(<<"D","u","e">>, Thornlie, "2", "Express", 3),
       Row(<<"3"," ","m","i","n">>, << >>, "1", "All Stations", 3),
       Row(<<"g","a","r","b","a","g","e">>, Perth, "1", "All Stations", 3),
       Row(<<"2"," ","m","i","n">>, Perth, "1", "All Stations", 2),
       Row(<<"1","0",":","4","5">>, Armadale, "2", "All Stations", 4) >>

\* a page of n rows repeating a pattern of pool rows
Cyclic(pattern, n) ==
    [ i \in 1..n |-> RowPool[pattern[((i - 1) % Len(pattern)) + 1]] ]

Patterns ==
    { << a >> : a \in 1..Len(RowPool) } \cup
    { << a, b >> : a \in 1..Len(RowPool), b \in 1..Len(RowPool) }

\* the pieces of the time text of a one-row page
TimeTokens ==
    { <<"N","o","w">>, <<"D","U","E">>, <<"5">>, <<"1","2">>,
      <<"1","0",":","4","5">>, <<"9",":","0","5">>, <<" ">>,
      <<" ","m","i","n">>, <<"m","i","n">>,
      <<"g","a","r","b","a","g","e">> }

RECURSIVE TokenStrings(_)
TokenStrings(k) ==
    IF k = 0 THEN { << >> }
    ELSE LET shorter == TokenStrings(k - 1)
         IN  shorter \cup { s \o t : s \in shorter, t \in TimeTokens }

\* get_text(strip=True) leaves no white space around a cell's text
TimeStrings == { s \in TokenStrings(MaxTokens) : Strip(s) = s }

RowLists ==
    { Cyclic(p, n) : p \in Patterns, n \in 0..MaxRows } \cup
    { << Row(s, d, "1", "All Stations", 3) >> :
          s \in TimeStrings, d \in { Perth, << >> } }

\* a response body as BeautifulSoup sees it
Content(rows, table, tbody) == [ table |-> table, tbody |-> tbody, rows |-> rows ]

Contents ==
    { Content(<< >>, FALSE, FALSE), Content(<< >>, TRUE, FALSE) } \cup
    { Content(rows, TRUE, TRUE) : rows \in RowLists }

\* the bodies that come with a status that is no success: an error page
\* without the table, one with an empty table, and the departures page
\* itself passed on under an error status
ErrorContents ==
    { Content(<< >>, FALSE, FALSE), Content(<< >>, TRUE, FALSE),
      Content(Cyclic(<< 1, 4 >>, 3), TRUE, TRUE) }

\* the readings of the wall clock (microseconds taken as 0)
Nows ==
    { [ hour |-> 10, minute |-> 40, second |-> 0 ],
      [ hour |-> 10, minute |-> 45, second |-> 0 ],
      [ hour |-> 10, minute |-> 50, second |-> 30 ] }

Midnight == [ hour |-> 0, minute |-> 0, second |-> 0 ]

NoResponse == [ ok |-> FALSE, content |-> Content(<< >>, FALSE, FALSE), bound |-> FALSE ]

\* a requests.Response: truthy exactly when its status is a success
Response(ok, content) == [ ok |-> ok, content |-> content, bound |-> TRUE ]

---------------------------------------------------------------------------
(* The request handler, step by step.                                      *)

Init ==
    /\ pc = "idle"
    /\ attempt = 0
    /\ outcomes = << >>
    /\ response = NoResponse
    /\ now = Midnight
    /\ minutes = Unbound
    /\ all_departures = << >>
    /\ perth_departures = << >>
    /\ south_departures = << >>
    /\ reply = NoReply

\* GET /api/departures arrives: get_departures calls scrape_transperth
Request ==
    /\ pc = "idle"
    /\ pc' = "fetch"
    /\ attempt' = 0
    /\ outcomes' = << >>
    /\ response' = NoResponse
    /\ now' = Midnight
    /\ minutes' = Unbound
    /\ all_departures' = << >>
    /\ perth_departures' = << >>
    /\ south_departures' = << >>
    /\ reply' = NoReply

\* a successful attempt that does not leave the loop
FetchOk_no_break ==
    /\ pc = "fetch"
    /\ \E c \in Contents : response' = Response(TRUE, c)
    /\ outcomes' = Append(outcomes, "ok")
    /\ IF attempt < max_retries - 1
       THEN attempt' = attempt + 1 /\ pc' = "fetch"
       ELSE attempt' = attempt /\ pc' = "parse"
    /\ UNCHANGED << now, minutes, all_departures, perth_departures,
                    south_departures, reply >>

\* lines 85-96: the attempt gets a response with a success status:
\* `if response` holds, raise_for_status passes, break
FetchOk ==
    /\ pc = "fetch"
    /\ \E c \in Contents : response' = Response(TRUE, c)
    /\ outcomes' = Append(outcomes, "ok")
    /\ pc' = "parse"
    /\ UNCHANGED << attempt, now, minutes, all_departures, perth_departures,
                    south_departures, reply >>

\* lines 85-94: the attempt gets a response without a success status: the
\* Response is falsy, so neither raise_for_status nor break runs and the
\* loop goes on; when it was the last attempt the loop ends normally
FetchBadStatus ==
    /\ pc = "fetch"
    /\ \E c \in ErrorContents : response' = Response(FALSE, c)
    /\ outcomes' = Append(outcomes, "bad_status")
    /\ IF attempt < max_retries - 1
       THEN attempt' = attempt + 1 /\ pc' = "fetch"
       ELSE attempt' = attempt /\ pc' = "parse"
    /\ UNCHANGED << now, minutes, all_departures, perth_departures,
                    south_departures, reply >>

\* lines 98-105: requests.exceptions.Timeout
FetchTimeout ==
    /\ pc = "fetch"
    /\ outcomes' = Append(outcomes, "timeout")
    /\ IF attempt < max_retries - 1
       THEN attempt' = attempt + 1 /\ pc' = "fetch"
       ELSE attempt' = attempt /\ pc' = "respond"      \* return []
    /\ UNCHANGED << response, now, minutes, all_departures, perth_departures,
                    south_departures, reply >>

\* lines 106-111: any other exception of the attempt
FetchError ==
    /\ pc = "fetch"
    /\ outcomes' = Append(outcomes, "error")
    /\ IF attempt < max_retries - 1
       THEN attempt' = attempt + 1 /\ pc' = "fetch"
       ELSE attempt' = attempt /\ pc' = "respond"      \* return []
    /\ UNCHANGED << response, now, minutes, all_departures, perth_departures,
                    south_departures, reply >>

\* lines 113-199: the body of `response` is parsed and the rows are read
ParseRows ==
    /\ pc = "parse"
    /\ \E t \in Nows :
          LET st == ParseBody(response.content, t)
          IN  /\ now' = t
              /\ minutes' = st.minutes
              /\ all_departures' = st.departures
    /\ pc' = "respond"
    /\ UNCHANGED << attempt, outcomes, response, perth_departures,
                    south_departures, reply >>

\* lines 210-232: get_departures splits, sorts, truncates and answers
Respond ==
    /\ pc = "respond"
    /\ perth_departures' = SortByMinutes(PerthFilter(all_departures))
    /\ south_departures' = SortByMinutes(SouthFilter(all_departures))
    /\ reply' = SuccessReply(perth_departures', south_departures')
    /\ pc' = "idle"
    /\ UNCHANGED << attempt, outcomes, response, now, minutes, all_departures >>

Next ==
    \/ Request
    \/ FetchOk
    \/ FetchBadStatus
    \/ FetchTimeout
    \/ FetchError
    \/ ParseRows
    \/ Respond

Spec == Init /\ [][Next]_vars

---------------------------------------------------------------------------
(* Vocabulary of the properties.                                           *)

Last(seq) == seq[Len(seq)]

\* scrape_transperth has returned
Scraped == pc \in { "respond", "idle" } /\ outcomes # << >>

\* scrape_transperth has returned from its parsing stage
BodyParsed == Scraped /\ Last(outcomes) \in { "ok", "bad_status" }

\* the request has been answered
Replied == pc = "idle" /\ outcomes # << >>

NoAttemptSucceeded == \A i \in 1..Len(outcomes) : outcomes[i] # "ok"

\* the rows the row loop went through
RowsRead ==
    IF response.content.table /\ response.content.tbody
    THEN response.content.rows
    ELSE << >>

\* the rows that carry the three cells of a raw record
CellRows == { i \in 1..Len(RowsRead) : RowsRead[i].ntds >= 3 }

\* the row loop normalised at least one time text
Normalized == BodyParsed /\ CellRows # {}

\* the time text of the last call of parse_departure_time
LastTimeText ==
    RowsRead[CHOOSE i \in CellRows : \A j \in CellRows : j <= i].time_text

\* word occurs in s in any letter case
Says(word, s) ==
    \E i \in 1..(Len(s) - Len(word) + 1) :
        \A k \in 1..Len(word) : LowerChar(s[i + k - 1]) = word[k]

SaysNowOrDue(s) == Says(<<"n","o","w">>, s) \/ Says(<<"d","u","e">>, s)

\* s is a clock time H:MM or HH:MM and nothing else
IsClockText(s) ==
    LET x == Strip(s)
    IN  /\ Len(x) \in { 4, 5 }
        /\ x[Len(x) - 2] = ":"
        /\ \A i \in 1..Len(x) : i # Len(x) - 2 => IsDigit(x[i])
        /\ IntOf(SubSeq(x, 1, Len(x) - 3)) <= 23
        /\ IntOf(SubSeq(x, Len(x) - 1, Len(x))) <= 59

\* whole minutes from t to the next time the clock shows s
MinutesUntilClock(s, t) ==
    LET x     == Strip(s)
        at    == 3600 * IntOf(SubSeq(x, 1, Len(x) - 3))
                 + 60 * IntOf(SubSeq(x, Len(x) - 1, Len(x)))
        later == IF at < SecondsOf(t) THEN at + SecondsPerDay ELSE at
    IN  (later - SecondsOf(t)) \div 60

\* the value of the first run of decimal digits of s, read left to right
RECURSIVE LeadingRunValue(_, _, _, _)
LeadingRunValue(s, i, inRun, acc) ==
    IF i > Len(s) THEN acc
    ELSE IF IsDigit(s[i])
         THEN LeadingRunValue(s, i + 1, TRUE, 10 * acc + DigitValue(s[i]))
         ELSE IF inRun THEN acc ELSE LeadingRunValue(s, i + 1, FALSE, 0)

Count(d, list) == Cardinality({ k \in 1..Len(list) : list[k] = d })

Range(list) == { list[k] : k \in 1..Len(list) }

\* the rows that are kept: a normalised time and a destination
KeptRows ==
    { i \in CellRows :
        /\ parse_departure_time(RowsRead[i].time_text, now).kind = "int"
        /\ RowsRead[i].destination_text # << >> }

\* the kept records of one direction, by their places in all_departures
Toward(dir) ==
    { i \in 1..Len(all_departures) :
        Says(hub_token, all_departures[i].destination) = dir }

\* the place of all_departures[i] in the stable sort of its direction
RankIn(ix, i) ==
    1 + Cardinality({ j \in ix :
          \/ all_departures[j].minutes < all_departures[i].minutes
          \/ /\ all_departures[j].minutes = all_departures[i].minutes
             /\ j < i })

\* out is the first Limit records of the stable sort of direction ix
FirstOfStableSort(out, ix) ==
    /\ Len(out) = (IF Cardinality(ix) < 10 THEN Cardinality(ix) ELSE 10)
    /\ \A k \in 1..(Len(out) - 1) : out[k].minutes <= out[k + 1].minutes
    /\ \A i \in ix : RankIn(ix, i) <= 10 => out[RankIn(ix, i)] = all_departures[i]

---------------------------------------------------------------------------
(* The properties.                                                         *)

\* C1: a time text in clock format H:MM or HH:MM normalises to the whole
\* minutes from now until that wall-clock time, today or, when it is
\* earlier than now, tomorrow.
C1_ClockTimeIsMinutesUntil ==
    (Normalized /\ IsClockText(LastTimeText) /\ ~SaysNowOrDue(LastTimeText))
        => minutes = IntResult(MinutesUntilClock(LastTimeText, now))

\* C2: a request all of whose fetch attempts failed is answered with
\* success = false and a status that is not 2xx.
C2_FetchFailureIsFailureReply ==
    (Replied /\ NoAttemptSucceeded)
        => (~reply.success /\ reply.status \notin 200..299)

\* C3: each list of the reply has at most 10 entries, is sorted ascending by
\* minutes with ties in input order, and is the first 10 of the stable
\* sort of all kept records of its direction.
C3_RepliesAreFirstTenOfStableSort ==
    Replied =>
        /\ FirstOfStableSort(reply.perth, Toward(TRUE))
        /\ FirstOfStableSort(reply.south, Toward(FALSE))

C3_Witness ==
    /\ Replied
    /\ Cardinality(Toward(TRUE)) = 15
    /\ Len(reply.perth) = 10
    /\ \E k \in 1..9 : /\ reply.perth[k].minutes = reply.perth[k + 1].minutes
                       /\ reply.perth[k] # reply.perth[k + 1]

\* C4: before truncation the two lists are disjoint, hold every kept record
\* exactly once between them, and a record is in the perth list exactly
\* when its destination says 'perth' in any letter case.
C4_DirectionsPartitionKept ==
    Replied =>
        /\ \A d \in Range(all_departures) \cup Range(perth_departures)
                      \cup Range(south_departures) :
              /\ Count(d, perth_departures) + Count(d, south_departures)
                     = Count(d, all_departures)
              /\ Count(d, perth_departures) > 0 => Says(hub_token, d.destination)
              /\ Count(d, south_departures) > 0 => ~Says(hub_token, d.destination)
        /\ Len(perth_departures) + Len(south_departures) = Len(all_departures)

C4_Witness ==
    /\ Replied
    /\ \E d \in Range(perth_departures) : d.destination = PERTH /\ d.platform = "2"
    /\ \E d \in Range(south_departures) : d.destination = Armadale

\* C5: a raw record is kept exactly when its time normalises and its
\* destination is not empty; the kept records are all there, in the order
\* of their rows, whatever rows were dropped around them.
C5_KeptIffNormalizedAndDestined ==
    BodyParsed =>
        /\ Len(all_departures) = Cardinality(KeptRows)
        /\ \A i \in KeptRows :
              LET d == all_departures[Cardinality({ j \in KeptRows : j <= i })]
              IN  /\ d.destination = RowsRead[i].destination_text
                  /\ d.time_display = RowsRead[i].time_text
                  /\ d.platform = RowsRead[i].platform_text
        /\ \A k \in 1..Len(all_departures) : all_departures[k].destination # << >>

C5_Witness ==
    /\ BodyParsed
    /\ Len(all_departures) > 1
    /\ \E i \in CellRows :
          /\ RowsRead[i].destination_text = << >>
          /\ parse_departure_time(RowsRead[i].time_text, now).kind = "int"
          /\ \E j \in KeptRows : i < j

\* C6: a time text that says 'now' or 'due' in any letter case, anywhere,
\* normalises to 0, whatever else it holds.
C6_NowOrDueIsZero ==
    (Normalized /\ SaysNowOrDue(LastTimeText)) => minutes = IntResult(0)

C6_Witness ==
    /\ Normalized
    /\ LastTimeText = <<"1","0",":","4","5","D","U","E">>
    /\ minutes = IntResult(0)

\* C7: a time text that says neither 'now' nor 'due' and holds no clock
\* pattern normalises to the value of its first run of digits, and fails
\* exactly when it holds no digit.
C7_FirstDigitRunOrFailure ==
    (Normalized /\ ~SaysNowOrDue(LastTimeText) /\ ~HasClock(LastTimeText))
        => minutes = (IF \E i \in 1..Len(LastTimeText) : IsDigit(LastTimeText[i])
                      THEN IntResult(LeadingRunValue(LastTimeText, 1, FALSE, 0))
                      ELSE NoneResult)

C7_Witness ==
    /\ Normalized
    /\ LastTimeText = <<"1","2","m","i","n">>
    /\ minutes = IntResult(12)

\* C8: normalize yields the failure signal or a non-negative integer, and
\* every record of the reply carries the non-negative integer its time
\* text normalised to.
C8_MinutesNeverNegativeNorNull ==
    /\ Normalized => (minutes.kind \in { "int", "None" } /\ minutes.val >= 0)
    /\ \A d \in Range(all_departures) \cup Range(reply.perth) \cup Range(reply.south) :
          /\ d.minutes \in Nat
          /\ parse_departure_time(d.time_display, now) = IntResult(d.minutes)

C8_Witness ==
    /\ Replied
    /\ Normalized
    /\ now = [ hour |-> 10, minute |-> 50, second |-> 30 ]
    /\ LastTimeText = <<"1","0",":","4","5">>
    /\ Len(reply.perth) = 1
    /\ reply.perth[1].minutes >= 0

\* C9: a call none of whose attempts got a success response returns an empty
\* list without parsing a body; the parsing stage is entered only from an
\* attempt that left the loop through break.
C9_ParsingOnlyAfterSuccess ==
    /\ pc = "parse" => Last(outcomes) = "ok"
    /\ (Scraped /\ NoAttemptSucceeded) => (~BodyParsed /\ all_departures = << >>)

\* C10: a call makes at most 2 attempts, a further one only after a failed
\* one, none after a successful one, and always returns: while the loop
\* runs a step can be taken, every step of the loop is one more attempt,
\* and the loop is left for the parsing stage or the return.
C10_RetryLoopBounded ==
    /\ [](/\ Len(outcomes) <= 2
          /\ \A i \in 1..(Len(outcomes) - 1) : outcomes[i] # "ok"
          /\ pc = "fetch" => (Len(outcomes) < 2 /\ ENABLED Next))
    /\ [][pc = "fetch" => /\ Len(outcomes') = Len(outcomes) + 1
                          /\ pc' \in { "fetch", "parse", "respond" }
                          /\ pc' = "fetch" => outcomes'[Len(outcomes')] # "ok"]_vars
    /\ [][pc = "parse" => pc' = "respond"]_vars

C10_Witness ==
    /\ pc = "respond"
    /\ Len(outcomes) = 2
    /\ outcomes[1] = "timeout"

=============================================================================
